---- MODULE Spec2Model ----
(***************************************************************************)
(* Model of the statement parsers of bank-parser-indonesia                 *)
(* (src/src/parser/bca_parser.ts).                                         *)
(*                                                                         *)
(* Strings are sequences of one-character strings, so that the regular     *)
(* expressions, includes/trim/split/join/replace and parseInt/parseFloat   *)
(* of the source are computed character by character.  JavaScript numbers  *)
(* are records [nan, num, scale] standing for num / 10^scale (or NaN).     *)
(* Array indices are the 0-based indices of the source; At(a, i) reads     *)
(* a[i].  Token coordinates (transform[4], transform[5]) are integers.     *)
(***************************************************************************)
EXTENDS Integers, Sequences, FiniteSets, TLC

(***************************************************************************)
(* Characters and strings                                                  *)
(***************************************************************************)
Digits == <<"0", "1", "2", "3", "4", "5", "6", "7", "8", "9">>

UpperLetters ==
    <<"A", "B", "C", "D", "E", "F", "G", "H", "I", "J", "K", "L", "M",
      "N", "O", "P", "Q", "R", "S", "T", "U", "V", "W", "X", "Y", "Z">>

LowerLetters ==
    <<"a", "b", "c", "d", "e", "f", "g", "h", "i", "j", "k", "l", "m",
      "n", "o", "p", "q", "r", "s", "t", "u", "v", "w", "x", "y", "z">>

Range(f) == {f[i] : i \in DOMAIN f}

DigitSet == Range(Digits)

UpperSet == Range(UpperLetters)

LowerSet == Range(LowerLetters)

IsDigit(c) == c \in DigitSet

IsLetter(c) == c \in UpperSet \/ c \in LowerSet

IsSpace(c) == c = " "

IndexIn(seq, c) == CHOOSE i \in DOMAIN seq : seq[i] = c

DigitVal(c) == IndexIn(Digits, c) - 1

ToLowerChar(c) ==
    IF c \in UpperSet THEN LowerLetters[IndexIn(UpperLetters, c)] ELSE c

ToUpperChar(c) ==
    IF c \in LowerSet THEN UpperLetters[IndexIn(LowerLetters, c)] ELSE c

\* String.prototype.toLowerCase / toUpperCase
ToLowerCase(s) == [i \in DOMAIN s |-> ToLowerChar(s[i])]

ToUpperCase(s) == [i \in DOMAIN s |-> ToUpperChar(s[i])]

\* a[i] for a 0-based index inside the array
At(a, i) == a[i + 1]

\* s.substring(from) with a 0-based from
From(s, from) == SubSeq(s, from + 1, Len(s))

\* String.prototype.startsWith
StartsWith(s, p) == Len(s) >= Len(p) /\ SubSeq(s, 1, Len(p)) = p

\* String.prototype.includes
Includes(s, sub) ==
    \E i \in 0..(Len(s) - Len(sub)) : SubSeq(s, i + 1, i + Len(sub)) = sub

\* String.prototype.trim (the only whitespace of the model is the space)
RECURSIVE TrimStart(_)
TrimStart(s) ==
    IF s # <<>> /\ IsSpace(Head(s)) THEN TrimStart(Tail(s)) ELSE s

RECURSIVE TrimEnd(_)
TrimEnd(s) ==
    IF s # <<>> /\ IsSpace(s[Len(s)]) THEN TrimEnd(SubSeq(s, 1, Len(s) - 1)) ELSE s

Trim(s) == TrimEnd(TrimStart(s))

\* Array.prototype.join(' ')
RECURSIVE JoinSpace(_)
JoinSpace(strs) ==
    IF strs = <<>> THEN <<>>
    ELSE IF Len(strs) = 1 THEN strs[1]
    ELSE strs[1] \o <<" ">> \o JoinSpace(Tail(strs))

\* The last element of s.split(" "): the text after the last space
RECURSIVE LastSplitPart(_)
LastSplitPart(s) ==
    IF s = <<>> \/ IsSpace(s[Len(s)]) THEN <<>>
    ELSE LastSplitPart(SubSeq(s, 1, Len(s) - 1)) \o <<s[Len(s)]>>

\* s.replace(/c/g, '') for a single character c
RemoveAll(s, c) == SelectSeq(s, LAMBDA ch : ch # c)

\* s.replace(c, d): only the first occurrence of the character c
RECURSIVE ReplaceFirst(_, _, _)
ReplaceFirst(s, c, d) ==
    IF s = <<>> THEN <<>>
    ELSE IF Head(s) = c THEN <<d>> \o Tail(s)
    ELSE <<Head(s)>> \o ReplaceFirst(Tail(s), c, d)

\* The number of leading characters of s that are digits
RECURSIVE DigitRun(_)
DigitRun(s) ==
    IF s # <<>> /\ IsDigit(Head(s)) THEN 1 + DigitRun(Tail(s)) ELSE 0

AllDigits(s) == \A i \in DOMAIN s : IsDigit(s[i])

RECURSIVE DigitsValue(_)
DigitsValue(s) ==
    IF s = <<>> THEN 0
    ELSE 10 * DigitsValue(SubSeq(s, 1, Len(s) - 1)) + DigitVal(s[Len(s)])

(***************************************************************************)
(* JavaScript numbers                                                      *)
(***************************************************************************)
NaN == [nan |-> TRUE, num |-> 0, scale |-> 0]

RECURSIVE Normal(_, _)
Normal(n, sc) ==
    IF sc > 0 /\ n % 10 = 0 THEN Normal(n \div 10, sc - 1)
    ELSE [nan |-> FALSE, num |-> n, scale |-> sc]

\* The number n (an integer)
Num(n) == [nan |-> FALSE, num |-> n, scale |-> 0]

IsInteger(v) == ~v.nan /\ v.scale = 0

\* parseInt(s, 10): leading whitespace, a sign, then the digits that follow
ParseInt(s) ==
    LET t == TrimStart(s)
        neg == t # <<>> /\ Head(t) = "-"
        u == IF t # <<>> /\ Head(t) \in {"-", "+"} THEN Tail(t) ELSE t
        k == DigitRun(u)
    IN  IF k = 0 THEN NaN
        ELSE Num((IF neg THEN -1 ELSE 1) * DigitsValue(SubSeq(u, 1, k)))

\* parseFloat(s): leading whitespace, a sign, digits, a period and digits; the
\* longest such prefix.  (No string that reaches parseFloat holds an exponent:
\* each has passed a pattern of digits, periods, commas and a sign.)
ParseFloat(s) ==
    LET t == TrimStart(s)
        neg == t # <<>> /\ Head(t) = "-"
        u == IF t # <<>> /\ Head(t) \in {"-", "+"} THEN Tail(t) ELSE t
        k == DigitRun(u)
        rest == From(u, k)
        f == IF rest # <<>> /\ Head(rest) = "." THEN DigitRun(Tail(rest)) ELSE 0
        digs == SubSeq(u, 1, k) \o SubSeq(rest, 2, f + 1)
    IN  IF k + f = 0 THEN NaN
        ELSE Normal((IF neg THEN -1 ELSE 1) * DigitsValue(digs), f)

\* Math.abs
Abs(v) == IF v.nan THEN v ELSE [v EXCEPT !.num = IF v.num < 0 THEN -v.num ELSE v.num]

(***************************************************************************)
(* Tokens and records                                                      *)
(***************************************************************************)
\* A pdfjs TextItem: str and the coordinates transform[4], transform[5]
TextItem(str, x, y) == [str |-> str, x |-> x, y |-> y]

\* A TextItem of the sequential format, where only str is read
Tok(str) == TextItem(str, 0, 0)

TrxRecord(tahun, tgl, ket, type, mutasi, saldo) ==
    [tahun |-> tahun, tgl |-> tgl, ket |-> ket, type |-> type,
     mutasi |-> mutasi, saldo |-> saldo]

(***************************************************************************)
(* Module-level regular expressions of the sequential parser               *)
(***************************************************************************)
\* /^(0[1-9]|[12][0-9]|3[01])\/(0[1-9]|1[0-2])$/
DateMatch(s) ==
    /\ Len(s) = 5
    /\ \/ s[1] = "0" /\ IsDigit(s[2]) /\ s[2] # "0"
       \/ s[1] \in {"1", "2"} /\ IsDigit(s[2])
       \/ s[1] = "3" /\ s[2] \in {"0", "1"}
    /\ s[3] = "/"
    /\ \/ s[4] = "0" /\ IsDigit(s[5]) /\ s[5] # "0"
       \/ s[4] = "1" /\ s[5] \in {"0", "1", "2"}

\* (,\d{3})*\.\d{2}$ from the start of s
RECURSIVE MoneyTail(_)
MoneyTail(s) ==
    /\ s # <<>>
    /\ \/ Head(s) = "." /\ Len(s) = 3 /\ IsDigit(s[2]) /\ IsDigit(s[3])
       \/ /\ Head(s) = ","
          /\ Len(s) >= 4
          /\ IsDigit(s[2]) /\ IsDigit(s[3]) /\ IsDigit(s[4])
          /\ MoneyTail(From(s, 4))

\* /^\d{1,3}(,\d{3})*\.\d{2}$/
MoneyMatch(s) ==
    \E k \in 1..3 : k <= Len(s) /\ AllDigits(SubSeq(s, 1, k)) /\ MoneyTail(From(s, k))

\* dateRgx as it would be with the g flag
dateRgxFlagsGlobal == {"g"}

\* The flags of dateRgx and of moneyRgx: none
dateRgxFlags == {}

moneyRgxFlags == {}

\* RegExp.prototype.test for a pattern anchored at both ends: without the g
\* flag lastIndex is neither read nor written; with it the match starts at
\* lastIndex, which is then set to the end of the match, or to 0 on failure.
RegExpTest(flags, lastIndex, s, matches) ==
    IF "g" \notin flags THEN [ok |-> matches, lastIndex |-> lastIndex]
    ELSE LET ok == lastIndex = 0 /\ matches
         IN  [ok |-> ok, lastIndex |-> IF ok THEN Len(s) ELSE 0]

\* dateRgx.test(s) and moneyRgx.test(s) in the state rx of the two objects:
\* the result and the state after the call
dateRgxTest(rx, s) ==
    LET t == RegExpTest(dateRgxFlags, rx.date, s, DateMatch(s))
    IN  [ok |-> t.ok, rx |-> [rx EXCEPT !.date = t.lastIndex]]

moneyRgxTest(rx, s) ==
    LET t == RegExpTest(moneyRgxFlags, rx.money, s, MoneyMatch(s))
    IN  [ok |-> t.ok, rx |-> [rx EXCEPT !.money = t.lastIndex]]

\* The state of the two objects when the module is loaded
RxInit == [date |-> 0, money |-> 0]

(***************************************************************************)
(* parseBCAItems: the sequential statement parser                          *)
(***************************************************************************)
STR_PERIODE == <<"P", "E", "R", "I", "O", "D", "E">>

STR_TANGGAL == <<"T", "A", "N", "G", "G", "A", "L">>

STR_KETERANGAN == <<"K", "E", "T", "E", "R", "A", "N", "G", "A", "N">>

STR_CBG == <<"C", "B", "G">>

STR_DB == <<"D", "B">>

STR_CR == <<"C", "R">>

STR_20 == <<"2", "0">>

STR_SALDO_AWAL_UPPER == <<"S", "A", "L", "D", "O", " ", "A", "W", "A", "L">>

STR_saldo_awal_colon == <<"s", "a", "l", "d", "o", " ", "a", "w", "a", "l", " ", ":">>

STR_bersambung == <<"b", "e", "r", "s", "a", "m", "b", "u", "n", "g", " ", "k", "e", " ", "h", "a", "l", "a", "m", "a", "n">>

\* items.findIndex(rec => rec.str === str): the 0-based index, or -1
FindIndexStr(items, str) ==
    IF \E i \in DOMAIN items : items[i].str = str
    THEN (CHOOSE i \in DOMAIN items :
              items[i].str = str /\ \A j \in 1..(i - 1) : items[j].str # str) - 1
    ELSE -1

\* The period text: the first item holding "20" among the (at most nine) items
\* after PERIODE, or the empty string
Periode(items, periodeIdx) ==
    LET cand == {i \in (periodeIdx + 1)..(periodeIdx + 9) :
                     i < Len(items) /\ Includes(At(items, i).str, STR_20)}
    IN  IF cand = {} THEN <<>>
        ELSE At(items, CHOOSE i \in cand : \A j \in cand : i <= j).str

\* The year of the page: parseInt of the last space-separated part of the period
Tahun(periode) == ParseInt(LastSplitPart(Trim(periode)))

\* Whether KETERANGAN stands within five items of TANGGAL (keteranganIdx # -1)
HasKeterangan(items, tanggalHeaderIdx) ==
    \E idx \in 0..(Len(items) - 1) :
        /\ idx > tanggalHeaderIdx - 5
        /\ idx < tanggalHeaderIdx + 5
        /\ At(items, idx).str = STR_KETERANGAN

\* The first date after the TANGGAL header: [idx, rx], idx = -1 when there is none.
\* (Here and in the loops below the state of one pass is bound by a quantifier
\* over a singleton, so that the next pass starts from its value.)
RECURSIVE FindStartRow(_, _, _)
FindStartRow(items, i, rx) ==
    IF i >= Len(items) THEN [idx |-> -1, rx |-> rx]
    ELSE CHOOSE r \in {IF t.ok THEN [idx |-> i, rx |-> t.rx]
                       ELSE FindStartRow(items, i + 1, t.rx) :
                           t \in {dateRgxTest(rx, At(items, i).str)}} : TRUE

\* The end-of-list markers
IsEndMarker(str) ==
    \/ Includes(ToLowerCase(str), STR_saldo_awal_colon)
    \/ Includes(ToLowerCase(str), STR_bersambung)

\* items[currentIdx + 2].str === "DB" behind the guard currentIdx + 1 <
\* items.length: "throws" when the guard passes and items[currentIdx + 2] is
\* undefined
FollowedByDB(items, currentIdx) ==
    IF ~(currentIdx + 1 < Len(items)) THEN "no"
    ELSE IF currentIdx + 2 >= Len(items) THEN "throws"
    ELSE IF At(items, currentIdx + 2).str = STR_DB THEN "yes"
    ELSE "no"

\* One pass of the inner while loop, which looks for the amount and the balance
\* of currentRecord.  st = [idx, rec, found, detail, rx, threw, brk].
SubScanStep(items, st) ==
    LET nextItem == At(items, st.idx)
        d == dateRgxTest(st.rx, nextItem.str)
        m1 == IF ~st.found THEN moneyRgxTest(d.rx, nextItem.str)
              ELSE [ok |-> FALSE, rx |-> d.rx]
        detail == IF ~st.found /\ ~m1.ok THEN Append(st.detail, nextItem.str)
                  ELSE st.detail
        m2 == moneyRgxTest(m1.rx, nextItem.str)
        amount == ParseFloat(RemoveAll(nextItem.str, ","))
        db == FollowedByDB(items, st.idx)
        atEnd == IsEndMarker(nextItem.str)
    IN  IF d.ok THEN [st EXCEPT !.rx = d.rx, !.brk = TRUE]
        ELSE IF ~m2.ok
        THEN [st EXCEPT !.idx = st.idx + 1, !.detail = detail, !.rx = m2.rx,
                        !.brk = atEnd]
        ELSE IF db = "throws"
        THEN [st EXCEPT !.detail = detail, !.rx = m2.rx, !.threw = TRUE,
                        !.brk = TRUE]
        ELSE IF db = "yes"
        THEN [st EXCEPT !.idx = st.idx + 2, !.detail = detail, !.rx = m2.rx,
                        !.rec.type = "debit", !.rec.mutasi = amount,
                        !.found = TRUE, !.brk = atEnd]
        ELSE IF ~st.found
        THEN [st EXCEPT !.idx = st.idx + 1, !.detail = detail, !.rx = m2.rx,
                        !.rec.type = "credit", !.rec.mutasi = amount,
                        !.found = TRUE, !.brk = atEnd]
        ELSE [st EXCEPT !.idx = st.idx + 1, !.detail = detail, !.rx = m2.rx,
                        !.rec.saldo = amount, !.brk = TRUE]

\* The inner while loop: while (currentIdx < items.length) { ... }
RECURSIVE SubScan(_, _)
SubScan(items, st) ==
    IF st.brk \/ ~(st.idx < Len(items)) THEN st
    ELSE CHOOSE r \in {SubScan(items, n) : n \in {SubScanStep(items, st)}} : TRUE

\* The description after the detail lines are added to it
WithDetail(ket, detail) ==
    IF Len(detail) > 0
    THEN IF ket # <<>> THEN ket \o <<" ">> \o Trim(JoinSpace(detail))
         ELSE Trim(JoinSpace(detail))
    ELSE ket

\* The special case for "SALDO AWAL", decided on the description as it stands
\* at the end of the inner loop
SaldoAwalType(ket, type) ==
    IF ToUpperCase(ket) = STR_SALDO_AWAL_UPPER THEN "saldo_awal" ELSE type

\* The branch of a date item: the record so far is saved, a new one is opened,
\* its description, amount and balance are read.  ms = [idx, rec, has, recs,
\* rx, threw, brk]; rx is the state after the date test of the outer loop.
OpenRecord(items, ms, tahun, rx) ==
    LET item == At(items, ms.idx)
        recs == IF ms.has /\ ms.rec.tgl # <<>> THEN Append(ms.recs, ms.rec)
                ELSE ms.recs
        i1 == ms.idx + 1
        ket == IF i1 < Len(items) THEN At(items, i1).str ELSE <<>>
        i2 == IF i1 < Len(items) THEN i1 + 1 ELSE i1
        i3 == IF i2 < Len(items) /\ At(items, i2).str = STR_CBG THEN i2 + 2 ELSE i2
        new == TrxRecord(tahun, item.str, ket, "credit", Num(0), Num(0))
        Close(sub) ==
            CHOOSE r \in
                {[idx |-> sub.idx,
                  rec |-> [sub.rec EXCEPT !.ket = ket2,
                                          !.type = SaldoAwalType(ket2, sub.rec.type)],
                  has |-> TRUE, recs |-> recs, rx |-> sub.rx, threw |-> sub.threw,
                  brk |-> sub.threw] :
                     ket2 \in {WithDetail(sub.rec.ket, sub.detail)}} : TRUE
    IN  CHOOSE r \in
            {Close(sub) :
                 sub \in {SubScan(items, [idx |-> i3, rec |-> new, found |-> FALSE,
                                          detail |-> <<>>, rx |-> rx,
                                          threw |-> FALSE, brk |-> FALSE])}} : TRUE

\* The branch of any other item: it may be more description for the record
ExtendRecord(items, ms, rx) ==
    LET item == At(items, ms.idx)
        d == IF ms.has THEN dateRgxTest(rx, item.str) ELSE [ok |-> FALSE, rx |-> rx]
        m == IF ms.has /\ ~d.ok THEN moneyRgxTest(d.rx, item.str)
             ELSE [ok |-> FALSE, rx |-> d.rx]
        add == /\ ms.has /\ ~d.ok /\ ~m.ok
               /\ item.str # STR_DB /\ item.str # STR_CR
    IN  [ms EXCEPT !.idx = ms.idx + 1, !.rx = m.rx,
                   !.rec.ket = IF add THEN ms.rec.ket \o <<" ">> \o item.str
                               ELSE ms.rec.ket]

\* One pass of the outer while loop
MainStep(items, ms, tahun) ==
    LET item == At(items, ms.idx)
        d == dateRgxTest(ms.rx, item.str)
    IN  IF IsEndMarker(item.str) THEN [ms EXCEPT !.brk = TRUE]
        ELSE IF d.ok THEN OpenRecord(items, ms, tahun, d.rx)
        ELSE ExtendRecord(items, ms, d.rx)

\* The outer while loop: while (currentIdx < items.length) { ... }
RECURSIVE MainLoop(_, _, _)
MainLoop(items, ms, tahun) ==
    IF ms.brk \/ ~(ms.idx < Len(items)) THEN ms
    ELSE CHOOSE r \in {MainLoop(items, n, tahun) : n \in {MainStep(items, ms, tahun)}} :
             TRUE

NoRecord == TrxRecord(NaN, <<>>, <<>>, "credit", Num(0), Num(0))

\* parseBCAItems(items) called in the state rx of the module's regular
\* expressions: [threw, recs, rx].  threw: the call ended in a TypeError.
parseBCAItems(items, rx) ==
    LET periodeIdx == FindIndexStr(items, STR_PERIODE)
        tanggalHeaderIdx == FindIndexStr(items, STR_TANGGAL)
        Loop(start, tahun) ==
            CHOOSE r \in
                {IF ms.threw THEN [threw |-> TRUE, recs |-> <<>>, rx |-> ms.rx]
                 ELSE [threw |-> FALSE,
                       recs |-> IF ms.has /\ ms.rec.tgl # <<>>
                                THEN Append(ms.recs, ms.rec)
                                ELSE ms.recs,
                       rx |-> ms.rx] :
                    ms \in {MainLoop(items,
                                     [idx |-> start.idx, rec |-> NoRecord,
                                      has |-> FALSE, recs |-> <<>>,
                                      rx |-> start.rx, threw |-> FALSE,
                                      brk |-> FALSE],
                                     tahun)}} : TRUE
    IN  IF periodeIdx = -1 THEN [threw |-> FALSE, recs |-> <<>>, rx |-> rx]
        ELSE IF tanggalHeaderIdx = -1 THEN [threw |-> FALSE, recs |-> <<>>, rx |-> rx]
        ELSE IF ~HasKeterangan(items, tanggalHeaderIdx)
        THEN [threw |-> FALSE, recs |-> <<>>, rx |-> rx]
        ELSE CHOOSE r \in
                 {IF start.idx = -1
                  THEN [threw |-> FALSE, recs |-> <<>>, rx |-> start.rx]
                  ELSE Loop(start, tahun) :
                      start \in {FindStartRow(items, tanggalHeaderIdx + 1, rx)},
                      tahun \in {Tahun(Periode(items, periodeIdx))}} : TRUE

(***************************************************************************)
(* Helpers of the row format (Mandiri)                                     *)
(***************************************************************************)
STR_no == <<"n", "o">>

STR_tanggal == <<"t", "a", "n", "g", "g", "a", "l">>

STR_date == <<"d", "a", "t", "e">>

STR_saldo_awal == <<"s", "a", "l", "d", "o", " ", "a", "w", "a", "l">>

STR_WIB == <<"W", "I", "B">>

\* The number of leading characters of s that are whitespace
RECURSIVE SpaceRun(_)
SpaceRun(s) ==
    IF s # <<>> /\ IsSpace(Head(s)) THEN 1 + SpaceRun(Tail(s)) ELSE 0

\* /^\d+$/
IsOrdinal(s) == Len(s) >= 1 /\ AllDigits(s)

\* \d{2}\s+[A-Za-z]{3}\s+\d{4} at the start of s: the length of the match, or
\* 0 when there is none
DateLen(s) ==
    LET w1 == SpaceRun(From(s, 2))
        a == 2 + w1
        w2 == SpaceRun(From(s, a + 3))
        b == a + 3 + w2
    IN  IF /\ Len(s) >= 2 /\ IsDigit(s[1]) /\ IsDigit(s[2])
           /\ w1 >= 1
           /\ Len(s) >= a + 3
           /\ \A i \in 1..3 : IsLetter(s[a + i])
           /\ w2 >= 1
           /\ Len(s) >= b + 4
           /\ \A i \in 1..4 : IsDigit(s[b + i])
        THEN b + 4
        ELSE 0

\* /^\d{2}\s+[A-Za-z]{3}\s+\d{4}$/
IsPlainDate(s) == DateLen(s) = Len(s) /\ Len(s) > 0

\* /^\d{2}\s+[A-Za-z]{3}\s+\d{4}\/\d{4}$/
IsDateWithYear(s) ==
    LET n == DateLen(s)
    IN  /\ n > 0
        /\ Len(s) = n + 5
        /\ s[n + 1] = "/"
        /\ \A i \in 2..5 : IsDigit(s[n + i])

\* /^[\d.,]+,\d{2}$/
IsUnsignedNumber(s) ==
    /\ Len(s) >= 4
    /\ s[Len(s) - 2] = ","
    /\ IsDigit(s[Len(s) - 1]) /\ IsDigit(s[Len(s)])
    /\ \A i \in 1..(Len(s) - 3) : IsDigit(s[i]) \/ s[i] \in {".", ","}

\* /^-[\d.,]+,\d{2}$/ and /^\+[\d.,]+,\d{2}$/
IsMinusNumber(s) == s # <<>> /\ Head(s) = "-" /\ IsUnsignedNumber(Tail(s))

IsPlusNumber(s) == s # <<>> /\ Head(s) = "+" /\ IsUnsignedNumber(Tail(s))

\* The numbers of the direct strategy if its pattern took no minus sign
IsSignedNumberNoMinus(s) == IsPlusNumber(s) \/ IsUnsignedNumber(s)

\* /^[-+]?[\d.,]+,\d{2}$/
IsSignedNumber(s) == IsMinusNumber(s) \/ IsPlusNumber(s) \/ IsUnsignedNumber(s)

\* /^-?[\d.,]+,\d{2}$/
IsMinusOrUnsigned(s) == IsMinusNumber(s) \/ IsUnsignedNumber(s)

\* /^\d{2}:\d{2}:\d{2}\s+WIB$/
IsTime(s) ==
    /\ Len(s) >= 12
    /\ \A i \in {1, 2, 4, 5, 7, 8} : IsDigit(s[i])
    /\ s[3] = ":" /\ s[6] = ":"
    /\ SpaceRun(From(s, 8)) = Len(s) - 11
    /\ From(s, Len(s) - 3) = STR_WIB

\* The amount text with its sign left in
CleanAmountSigned(s) == ReplaceFirst(RemoveAll(s, "."), ",", ".")

\* text.replace(/\./g, '').replace(',', '.').replace(/[+-]/g, '')
CleanAmount(s) ==
    RemoveAll(RemoveAll(ReplaceFirst(RemoveAll(s, "."), ",", "."), "+"), "-")

\* text.replace(/\./g, '').replace(',', '.')
CleanBalance(s) == ReplaceFirst(RemoveAll(s, "."), ",", ".")

\* v * -1
Negate(v) == IF v.nan THEN v ELSE [v EXCEPT !.num = -v.num]

\* s.split(' ')
RECURSIVE Split(_)
Split(s) ==
    IF \A i \in DOMAIN s : s[i] # " " THEN <<s>>
    ELSE LET k == CHOOSE i \in DOMAIN s :
                      s[i] = " " /\ \A j \in 1..(i - 1) : s[j] # " "
         IN  <<SubSeq(s, 1, k - 1)>> \o Split(From(s, k))

\* s.split('/')[0]
BeforeSlash(s) ==
    IF \A i \in DOMAIN s : s[i] # "/" THEN s
    ELSE SubSeq(s, 1, (CHOOSE i \in DOMAIN s :
                           s[i] = "/" /\ \A j \in 1..(i - 1) : s[j] # "/") - 1)

\* The number of trailing characters of s that are digits
RECURSIVE DigitRunEnd(_)
DigitRunEnd(s) ==
    IF s # <<>> /\ IsDigit(s[Len(s)])
    THEN 1 + DigitRunEnd(SubSeq(s, 1, Len(s) - 1)) ELSE 0

\* description.replace(/\s+\d+\s*$/, ''): a bare number at the end, with the
\* whitespace before it, is cut
StripTrailingNumber(s) ==
    LET t == TrimEnd(s)
        k == DigitRunEnd(t)
        u == SubSeq(t, 1, Len(t) - k)
    IN  IF k >= 1 /\ u # <<>> /\ IsSpace(u[Len(u)]) THEN TrimEnd(u) ELSE s

\* The indices i of seq, in order, whose element satisfies the test given as
\* the set of the indices that do
IndicesIn(seq, S) == SelectSeq([i \in DOMAIN seq |-> i], LAMBDA i : i \in S)

\* The elements of seq at the indices S, in the order of seq
Filter(seq, S) == [k \in DOMAIN IndicesIn(seq, S) |-> seq[IndicesIn(seq, S)[k]]]

\* Array.prototype.sort by an integer key, ascending; stable, as the language
\* requires
RECURSIVE InsertByKey(_, _, _)
InsertByKey(sorted, e, key) ==
    IF sorted = <<>> THEN <<e>>
    ELSE IF sorted[Len(sorted)][key] <= e[key] THEN Append(sorted, e)
    ELSE Append(InsertByKey(SubSeq(sorted, 1, Len(sorted) - 1), e, key),
                sorted[Len(sorted)])

RECURSIVE SortByKey(_, _)
SortByKey(seq, key) ==
    IF seq = <<>> THEN <<>>
    ELSE InsertByKey(SortByKey(SubSeq(seq, 1, Len(seq) - 1), key), seq[Len(seq)], key)

\* .sort((a, b) => a.x - b.x)
SortByX(seq) == SortByKey(seq, "x")

\* .sort((a, b) => b.x - a.x)
SortByXDesc(seq) ==
    LET neg == [i \in DOMAIN seq |-> [e |-> seq[i], x |-> -seq[i].x]]
        srt == SortByKey(neg, "x")
    IN  [i \in DOMAIN srt |-> srt[i].e]

\* The items of a page with their positions; id stands for the identity of the
\* object (item !== amountItem compares objects, not contents)
PosItems(its) ==
    [i \in DOMAIN its |->
        [text |-> its[i].str, x |-> its[i].x, y |-> its[i].y, id |-> i]]

(***************************************************************************)
(* parseMandiriPage: the row reconstruction parser                         *)
(***************************************************************************)
\* Math.round(item.y / 2) * 2 for an integer y (a half rounds up)
RowKey(y) == ((y + 1) \div 2) * 2

\* A set of integers as a sequence, descending: .sort((a, b) => b - a)
RECURSIVE SortDesc(_)
SortDesc(S) ==
    IF S = {} THEN <<>>
    ELSE LET m == CHOOSE a \in S : \A b \in S : b <= a
         IN  <<m>> \o SortDesc(S \ {m})

\* groupIntoRows: the items of each row key in their order of arrival, the
\* rows from the top of the page (the largest key) down
groupIntoRows(pitems) ==
    LET keys == SortDesc({RowKey(pitems[i].y) : i \in DOMAIN pitems})
    IN  [r \in DOMAIN keys |->
            Filter(pitems, {i \in DOMAIN pitems : RowKey(pitems[i].y) = keys[r]})]

\* Whether the row holds the table headers
IsHeaderRow(row) ==
    LET rowTexts == {ToLowerCase(row[i].text) : i \in DOMAIN row}
    IN  \/ STR_no \in rowTexts /\ STR_tanggal \in rowTexts
        \/ STR_no \in rowTexts /\ STR_date \in rowTexts

\* findHeaderRow: the 0-based index of the first header row, or -1
findHeaderRow(rows) ==
    IF \E i \in DOMAIN rows : IsHeaderRow(rows[i])
    THEN (CHOOSE i \in DOMAIN rows :
              IsHeaderRow(rows[i]) /\ \A j \in 1..(i - 1) : ~IsHeaderRow(rows[j])) - 1
    ELSE -1

\* row.find(test): the smallest index of the set, 0 when the set is empty
FirstOf(S) == IF S = {} THEN 0 ELSE CHOOSE i \in S : \A j \in S : i <= j

\* The date cell of the row
DateCellOf(row) ==
    FirstOf({i \in DOMAIN row : IsPlainDate(row[i].text) \/ IsDateWithYear(row[i].text)})

\* The amount cell of the row: the first number, signed or not
AmountCellOf(row) ==
    FirstOf({i \in DOMAIN row :
                \/ IsMinusNumber(row[i].text)
                \/ IsPlusNumber(row[i].text)
                \/ IsUnsignedNumber(row[i].text)})

\* The balance cell: of the other unsigned numbers, the rightmost one
BalanceCellOf(row, amountCell) ==
    LET remainingItems ==
            SortByXDesc(Filter(row, {i \in DOMAIN row :
                                        /\ row[i].id # row[amountCell].id
                                        /\ IsUnsignedNumber(row[i].text)}))
    IN  IF Len(remainingItems) > 0
        THEN CHOOSE i \in DOMAIN row : row[i].id = remainingItems[1].id
        ELSE 0

\* The comparator of the description cells: top to bottom, then left to right
DescCompare(a, b) ==
    IF (IF a.y - b.y >= 0 THEN a.y - b.y ELSE b.y - a.y) > 5 THEN b.y - a.y
    ELSE a.x - b.x

RECURSIVE InsertDesc(_, _)
InsertDesc(sorted, e) ==
    IF sorted = <<>> THEN <<e>>
    ELSE IF DescCompare(sorted[Len(sorted)], e) <= 0 THEN Append(sorted, e)
    ELSE Append(InsertDesc(SubSeq(sorted, 1, Len(sorted) - 1), e), sorted[Len(sorted)])

\* .sort(DescCompare), stable
RECURSIVE SortDescItems(_)
SortDescItems(seq) ==
    IF seq = <<>> THEN <<>>
    ELSE InsertDesc(SortDescItems(SubSeq(seq, 1, Len(seq) - 1)), seq[Len(seq)])

\* The cells that make the description of the row: every cell but the amount,
\* the balance, the date and a time of day
DescItemsOf(row, dateCell, amountCell, balanceCell) ==
    SortDescItems(Filter(row, {i \in DOMAIN row :
                                  /\ i # amountCell
                                  /\ i # balanceCell
                                  /\ i # dateCell
                                  /\ ~IsTime(row[i].text)}))

Texts(pitems) == [i \in DOMAIN pitems |-> pitems[i].text]

\* The type of a record of the row format
MandiriType(description, isNegative) ==
    IF Includes(ToLowerCase(description), STR_saldo_awal) THEN "saldo_awal"
    ELSE IF isNegative THEN "debit"
    ELSE "credit"

\* The body of the loop over the rows after the header: the record of one row,
\* as a sequence of zero or one record
RowRecord(row, year) ==
    LET dateCell == DateCellOf(row)
        amountCell == AmountCellOf(row)
        balanceCell == BalanceCellOf(row, amountCell)
        dateText == IF Includes(row[dateCell].text, <<"/">>)
                    THEN BeforeSlash(row[dateCell].text)
                    ELSE row[dateCell].text
        isNegative == StartsWith(row[amountCell].text, <<"-">>)
        parsed == ParseFloat(CleanAmount(row[amountCell].text))
        amount == IF isNegative THEN Negate(parsed) ELSE parsed
        balance == ParseFloat(CleanBalance(row[balanceCell].text))
        description ==
            Trim(JoinSpace(Texts(DescItemsOf(row, dateCell, amountCell, balanceCell))))
    IN  IF Len(row) = 0 THEN <<>>
        ELSE IF ~IsOrdinal(row[1].text) THEN <<>>
        ELSE IF dateCell = 0 THEN <<>>
        ELSE IF amountCell = 0 THEN <<>>
        ELSE IF balanceCell = 0 THEN <<>>
        ELSE <<TrxRecord(year, dateText, description,
                         MandiriType(description, isNegative), Abs(amount), balance)>>

\* The concatenation of a sequence of sequences
RECURSIVE Flatten(_)
Flatten(seqs) ==
    IF seqs = <<>> THEN <<>> ELSE Head(seqs) \o Flatten(Tail(seqs))

\* parseMandiriPage(items, year)
parseMandiriPage(its, yr) ==
    LET rows == groupIntoRows(PosItems(its))
        headerRow == findHeaderRow(rows)
    IN  IF headerRow = -1 THEN <<>>
        ELSE Flatten([k \in 1..(Len(rows) - headerRow - 1) |->
                         RowRecord(At(rows, headerRow + k), yr)])

(***************************************************************************)
(* parseDirectTransactions: the direct token parser                        *)
(***************************************************************************)
\* |a - b|
Dist(a, b) == IF a >= b THEN a - b ELSE b - a

\* The record of one date item, as a sequence of zero or one record
DirectRecord(allItems, date, yr) ==
    LET numbers == Filter(allItems, {i \in DOMAIN allItems :
                                        IsSignedNumber(allItems[i].text)})
        relatedNumbers ==
            SortByX(Filter(numbers, {i \in DOMAIN numbers :
                                        Dist(numbers[i].y, date.y) < 20}))
        n == Len(relatedNumbers)
        balanceItem == relatedNumbers[n]
        signed == {i \in 1..n : \/ StartsWith(relatedNumbers[i].text, <<"-">>)
                                \/ StartsWith(relatedNumbers[i].text, <<"+">>)}
        amountItem == IF signed # {} THEN relatedNumbers[FirstOf(signed)]
                      ELSE relatedNumbers[n - 1]
        balance == ParseFloat(CleanBalance(balanceItem.text))
        isNegative == StartsWith(amountItem.text, <<"-">>)
        amount == ParseFloat(CleanAmount(amountItem.text))
        nearbyItems ==
            Filter(allItems, {i \in DOMAIN allItems :
                                 /\ Dist(allItems[i].y, date.y) < 25
                                 /\ allItems[i].id # date.id
                                 /\ allItems[i].id # amountItem.id
                                 /\ allItems[i].id # balanceItem.id
                                 /\ ~IsTime(allItems[i].text)
                                 /\ ~IsSignedNumber(allItems[i].text)})
        description == StripTrailingNumber(Trim(JoinSpace(Texts(nearbyItems))))
        dateParts == Split(date.text)
        formattedDate == dateParts[1] \o <<" ">> \o dateParts[2]
    IN  IF n < 2 THEN <<>>
        ELSE <<TrxRecord(yr, formattedDate, description,
                         MandiriType(description, isNegative), amount, balance)>>

\* parseDirectTransactions(items, year)
parseDirectTransactions(its, yr) ==
    LET allItems == PosItems(its)
        dates == Filter(allItems, {i \in DOMAIN allItems : IsPlainDate(allItems[i].text)})
    IN  Flatten([k \in DOMAIN dates |-> DirectRecord(allItems, dates[k], yr)])

(***************************************************************************)
(* parsePatternBased: the pattern-line parser                              *)
(***************************************************************************)
\* Math.round(item.y) for an integer y
LineKey(y) == y

\* The lines of the page: the items of each y, left to right; the lines from
\* the top of the page down
Lines(allText) ==
    LET sortedY == SortDesc({LineKey(allText[i].y) : i \in DOMAIN allText})
    IN  [r \in DOMAIN sortedY |->
            SortByX(Filter(allText, {i \in DOMAIN allText :
                                        LineKey(allText[i].y) = sortedY[r]}))]

\* The record of one line, as a sequence of zero or one record
LineRecord(line, yr) ==
    LET dateCell == FirstOf({i \in DOMAIN line : IsPlainDate(line[i].text)})
        dateItem == line[dateCell]
        numberItems == Filter(line, {i \in DOMAIN line : IsMinusOrUnsigned(line[i].text)})
        balanceItem == numberItems[Len(numberItems)]
        amountItem == numberItems[Len(numberItems) - 1]
        isNegative == StartsWith(amountItem.text, <<"-">>)
        amountValue == ParseFloat(CleanAmount(amountItem.text))
        balanceValue == ParseFloat(CleanBalance(balanceItem.text))
        startX == IF line[1].x >= dateItem.x THEN line[1].x ELSE dateItem.x
        between == Filter(line, {i \in DOMAIN line :
                                    /\ line[i].x > startX
                                    /\ line[i].x < amountItem.x
                                    /\ line[i].id # dateItem.id
                                    /\ ~IsTime(line[i].text)})
        description ==
            Trim(Flatten([i \in DOMAIN between |-> between[i].text \o <<" ">>]))
    IN  IF Len(line) = 0 THEN <<>>
        ELSE IF ~IsOrdinal(line[1].text) THEN <<>>
        ELSE IF dateCell = 0 THEN <<>>
        ELSE IF Len(numberItems) < 2 THEN <<>>
        ELSE <<TrxRecord(yr, dateItem.text, description,
                         MandiriType(description, isNegative), amountValue,
                         balanceValue)>>

\* parsePatternBased(items, year)
parsePatternBased(its, yr) ==
    LET lines == Lines(PosItems(its))
    IN  Flatten([i \in DOMAIN lines |-> LineRecord(lines[i], yr)])

(***************************************************************************)
(* parseMandiriStatement: the year, the disclaimer page, the fallback      *)
(* chain                                                                   *)
(***************************************************************************)
\* let year = 2025; // Default
DefaultYear == 2025

STR_disclaimer == <<"d", "i", "s", "c", "l", "a", "i", "m", "e", "r">>

STR_Tanggal == <<"T", "a", "n", "g", "g", "a", "l">>

STR_Date == <<"D", "a", "t", "e">>

\* items.map(item => item.str).join(' ')
PageText(its) == JoinSpace([i \in DOMAIN its |-> its[i].str])

\* (\d{2}\s+[A-Za-z]{3}\s+\d{4})\s*-\s*(\d{2}\s+[A-Za-z]{3}\s+\d{4}) at the
\* start of s
PeriodAt(s) ==
    LET n1 == DateLen(s)
        r1 == From(s, n1)
        r2 == From(r1, SpaceRun(r1))
        r3 == From(r2, 1)
        r4 == From(r3, SpaceRun(r3))
    IN  n1 > 0 /\ r2 # <<>> /\ Head(r2) = "-" /\ DateLen(r4) > 0

\* The year of the statement: the four digits that end the first date of the
\* first period of the text, or the default
ResolveYear(text) ==
    LET starts == {i \in 0..(Len(text) - 1) : PeriodAt(From(text, i))}
        first == CHOOSE i \in starts : \A j \in starts : i <= j
        group1 == SubSeq(text, first + 1, first + DateLen(From(text, first)))
    IN  IF starts = {} THEN Num(DefaultYear)
        ELSE ParseInt(From(group1, Len(group1) - 4))

\* The test that skips the last page: a disclaimer and no table header
IsDisclaimerPage(text) ==
    /\ Includes(ToLowerCase(text), STR_disclaimer)
    /\ ~Includes(text, STR_Tanggal)
    /\ ~Includes(text, STR_Date)

\* The direct parser tried whatever the standard parser returned
AfterStandardAlways(standardRecs) == "direct"

\* Where the chain goes after the standard parser, and after the direct one
AfterStandard(standardRecs) == IF Len(standardRecs) > 0 THEN "push" ELSE "direct"

AfterDirect(directRecs) == IF Len(directRecs) > 0 THEN "push" ELSE "pattern"

(***************************************************************************)
(* Inputs of the sequential parser                                         *)
(***************************************************************************)
SeqsUpTo(S, n) == UNION {[1..k -> S] : k \in 0..n}

\* Bounds: the longest page body over each vocabulary, and the calls per input
MaxBody == 3

MaxBodyExample == 5

MaxBodySaldo == 6

MaxBodyShort == 2

MaxCalls == 2

W_COLON == Tok(<<":">>)

W_PERIOD == Tok(<<"J", "A", "N", "U", "A", "R", "I", " ", "2", "0", "2", "4">>)

W_PERIODE == Tok(STR_PERIODE)

W_TANGGAL == Tok(STR_TANGGAL)

W_KETERANGAN == Tok(STR_KETERANGAN)

W_DATE == Tok(<<"0", "1", "/", "0", "1">>)

W_DATE2 == Tok(<<"3", "1", "/", "1", "2">>)

W_TARIKAN == Tok(<<"T", "A", "R", "I", "K", "A", "N", " ", "A", "T", "M">>)

W_SALDO == Tok(<<"S", "A", "L", "D", "O">>)

W_AWAL == Tok(<<"A", "W", "A", "L">>)

W_M50 == Tok(<<"5", "0", ",", "0", "0", "0", ".", "0", "0">>)

W_M950 == Tok(<<"9", "5", "0", ",", "0", "0", "0", ".", "0", "0">>)

W_DB == Tok(STR_DB)

W_CR == Tok(STR_CR)

W_CBG == Tok(STR_CBG)

W_END == Tok(<<"B", "e", "r", "s", "a", "m", "b", "u", "n", "g", " ", "k", "e", " ", "H", "a", "l", "a", "m", "a", "n", " ", "b", "e", "r", "i", "k", "u", "t">>)

\* Header anchors: complete; without a period text; without one of the anchors
HdrFull == <<W_PERIODE, W_COLON, W_PERIOD, W_TANGGAL, W_KETERANGAN>>

HdrKeteranganFirst == <<W_PERIODE, W_COLON, W_PERIOD, W_KETERANGAN, W_TANGGAL>>

HdrNoYear == <<W_PERIODE, W_TANGGAL, W_KETERANGAN>>

HdrNoPeriode == <<W_PERIOD, W_TANGGAL, W_KETERANGAN>>

HdrNoTanggal == <<W_PERIODE, W_COLON, W_PERIOD, W_KETERANGAN>>

HdrNoKeterangan == <<W_PERIODE, W_COLON, W_PERIOD, W_TANGGAL>>

Vocab == {W_DATE, W_DATE2, W_TARIKAN, W_M50, W_M950, W_DB, W_CR, W_CBG, W_END}

VocabExample == {W_DATE, W_TARIKAN, W_M50, W_DB, W_M950}

VocabSaldo == {W_DATE, W_SALDO, W_AWAL, W_M50}

Bodies ==
    SeqsUpTo(Vocab, MaxBody) \cup SeqsUpTo(VocabExample, MaxBodyExample)
        \cup SeqsUpTo(VocabSaldo, MaxBodySaldo)

BCAInputs ==
    {HdrFull \o b : b \in Bodies}
        \cup {h \o b : h \in {HdrKeteranganFirst, HdrNoYear, HdrNoPeriode,
                                HdrNoTanggal, HdrNoKeterangan},
                       b \in SeqsUpTo(VocabExample, MaxBodyShort)}

(***************************************************************************)
(* Inputs of the row format                                                *)
(***************************************************************************)
\* Bounds: the longest page body in any order, and in the order of the pool
MaxPerm == 3

MaxCells == 6

H_NO == TextItem(<<"N", "o">>, 10, 700)

H_TANGGAL == TextItem(<<"T", "a", "n", "g", "g", "a", "l">>, 50, 700)

H_NO_UPPER == TextItem(<<"N", "O">>, 10, 700)

H_TANGGAL_UPPER == TextItem(<<"T", "A", "N", "G", "G", "A", "L">>, 50, 700)

C_ORD == TextItem(<<"1">>, 10, 680)

C_DATE == TextItem(<<"0", "1", " ", "J", "a", "n", " ", "2", "0", "2", "5">>, 50, 680)

C_TIME == TextItem(<<"1", "0", ":", "0", "0", ":", "0", "0", " ", "W", "I", "B">>, 50, 679)

C_DESC == TextItem(<<"T", "R", "A", "N", "S", "F", "E", "R", " ", "M", "A", "S", "U", "K">>, 150, 680)

C_SALDO == TextItem(<<"S", "a", "l", "d", "o", " ", "A", "w", "a", "l">>, 150, 679)

C_PLUS == TextItem(<<"+", "1", ".", "0", "0", "0", ".", "0", "0", "0", ",", "0", "0">>, 300, 680)

C_BAL == TextItem(<<"5", ".", "0", "0", "0", ".", "0", "0", "0", ",", "0", "0">>, 400, 680)

C_MINUS == TextItem(<<"-", "5", "0", ".", "0", "0", "0", ",", "0", "0">>, 450, 679)

C_DATE2 == TextItem(<<"0", "2", " ", "J", "a", "n", " ", "2", "0", "2", "5", "/", "2", "0", "2", "5">>, 50, 670)

C_DATE3 == TextItem(<<"0", "3", " ", "J", "a", "n", " ", "2", "0", "2", "5">>, 50, 690)

PoolSeq ==
    <<C_ORD, C_DATE, C_TIME, C_DESC, C_SALDO, C_PLUS, C_BAL, C_MINUS, C_DATE2, C_DATE3>>

Pool == Range(PoolSeq)

\* The sequences of at most n distinct elements of S
PermsUpTo(S, n) ==
    UNION {{q \in [1..k -> S] : \A i, j \in 1..k : i # j => q[i] # q[j]} : k \in 0..n}

\* The subsequences of seq of at most n elements
SubseqsUpTo(seq, n) ==
    {Filter(seq, S) : S \in {S \in SUBSET DOMAIN seq : Cardinality(S) <= n}}

\* Bound: the longest page body made of the cells of one line
MaxLine == 4

\* A debit on the line of the ordinal and the date
L_MINUS == TextItem(<<"-", "5", "0", ".", "0", "0", "0", ",", "0", "0">>, 300, 680)

LinePool == {C_ORD, C_DATE, C_DESC, L_MINUS, C_PLUS, C_BAL}

PageBodies ==
    PermsUpTo(Pool, MaxPerm) \cup SubseqsUpTo(PoolSeq, MaxCells)
        \cup PermsUpTo(LinePool, MaxLine)

PageInputs == {h \o b : h \in {<<>>, <<H_NO, H_TANGGAL>>}, b \in PageBodies}

(***************************************************************************)
(* Documents of the row format                                             *)
(***************************************************************************)
\* Bound: the pages of a document
MaxPages == 2

D_PERIOD == TextItem(<<"0", "1", " ", "J", "a", "n", " ", "2", "0", "2", "4", " ", "-", " ", "3", "1", " ", "J", "a", "n", " ", "2", "0", "2", "4">>, 10, 750)

D_DISCLAIMER == TextItem(<<"D", "i", "s", "c", "l", "a", "i", "m", "e", "r">>, 10, 760)

DataRow == <<C_ORD, C_DATE, C_DESC, C_PLUS, C_BAL>>

DataRowMinus == <<C_ORD, C_DATE, C_DESC, C_BAL, C_MINUS>>

PgTable == <<H_NO, H_TANGGAL>> \o DataRow

PgPeriodTable == <<D_PERIOD, H_NO, H_TANGGAL>> \o DataRowMinus

PgDirect == DataRowMinus

PgEmpty == <<C_DESC>>

PgDisclaimer == <<D_DISCLAIMER, C_DESC>>

PgDisclaimerTable == <<D_DISCLAIMER, H_NO, H_TANGGAL>> \o DataRow

PgDisclaimerTableUpper == <<D_DISCLAIMER, H_NO_UPPER, H_TANGGAL_UPPER>> \o DataRow

PgDisclaimerDirect == <<D_DISCLAIMER>> \o DataRowMinus

PagePool ==
    {PgTable, PgPeriodTable, PgDirect, PgEmpty, PgDisclaimer, PgDisclaimerTable,
     PgDisclaimerTableUpper, PgDisclaimerDirect}

Documents == UNION {[1..n -> PagePool] : n \in 1..MaxPages}

(***************************************************************************)
(* State                                                                   *)
(***************************************************************************)
VARIABLES
    fn,       \* the strategy under call
    items,    \* the token list handed to it
    input,    \* the token list as it was handed over
    year,     \* the year handed to the strategies of the row format
    rx,       \* the state of the module's dateRgx and moneyRgx
    outs,     \* the results of the calls so far, [threw, recs] each
    doc,      \* parseMandiriStatement: the pages of the document
    pc,       \* its position
    pageNum,  \* its loop variable
    stYear,   \* its variable year
    pageRecs, \* its variable pageRecs
    allRecs,  \* its variable allRecs
    log,      \* what it has done so far: [page, step, n] each
    file,        \* App: the state file
    parserKind,  \* its state parserKind
    trxRecords,  \* its state trxRecords
    pending,     \* the promise chains of convertFiles that have not settled
    started,     \* how many were started
    settled      \* those that ended in setTrxRecords

svars == <<fn, items, input, year, rx, outs>>

dvars == <<doc, pc, pageNum, stYear, pageRecs, allRecs, log>>

avars == <<file, parserKind, trxRecords, pending, started, settled>>

vars == <<svars, dvars, avars>>

NoCall ==
    /\ fn = "none"
    /\ items = <<>>
    /\ input = <<>>
    /\ year = Num(0)
    /\ rx = RxInit
    /\ outs = <<>>

NoApp ==
    /\ file = "null"
    /\ parserKind = "bca_statement"
    /\ trxRecords = <<>>
    /\ pending = {}
    /\ started = 0
    /\ settled = {}

NoDocument ==
    /\ doc = <<>>
    /\ pc = "none"
    /\ pageNum = 0
    /\ stYear = Num(0)
    /\ pageRecs = <<>>
    /\ allRecs = <<>>
    /\ log = <<>>

(***************************************************************************)
(* The parser strategies as a state machine: an input is drawn, and the    *)
(* strategy fn is called on it, up to MaxCalls times.                      *)
(***************************************************************************)
InitBCA ==
    /\ fn = "parseBCAItems"
    /\ items \in BCAInputs
    /\ input = items
    /\ year = Num(0)
    /\ rx = RxInit
    /\ outs = <<>>
    /\ NoDocument
    /\ NoApp

InitRows ==
    /\ fn \in {"parseMandiriPage", "parseDirectTransactions", "parsePatternBased"}
    /\ items \in PageInputs
    /\ input = items
    /\ year = Num(DefaultYear)
    /\ rx = RxInit
    /\ outs = <<>>
    /\ NoDocument
    /\ NoApp

Init == InitBCA \/ InitRows

\* recs = parseBCAItems(items)
CallParseBCAItems ==
    /\ fn = "parseBCAItems"
    /\ Len(outs) < MaxCalls
    /\ \E r \in {parseBCAItems(items, rx)} :
           /\ outs' = Append(outs, [threw |-> r.threw, recs |-> r.recs])
           /\ rx' = r.rx
    /\ UNCHANGED <<fn, items, input, year, dvars, avars>>

\* recs = parseMandiriPage(items, year)
CallParseMandiriPage ==
    /\ fn = "parseMandiriPage"
    /\ Len(outs) < MaxCalls
    /\ outs' = Append(outs, [threw |-> FALSE, recs |-> parseMandiriPage(items, year)])
    /\ UNCHANGED <<fn, items, input, year, rx, dvars, avars>>

\* recs = parseDirectTransactions(items, year)
CallParseDirectTransactions ==
    /\ fn = "parseDirectTransactions"
    /\ Len(outs) < MaxCalls
    /\ outs' = Append(outs, [threw |-> FALSE,
                             recs |-> parseDirectTransactions(items, year)])
    /\ UNCHANGED <<fn, items, input, year, rx, dvars, avars>>

\* recs = parsePatternBased(items, year)
CallParsePatternBased ==
    /\ fn = "parsePatternBased"
    /\ Len(outs) < MaxCalls
    /\ outs' = Append(outs, [threw |-> FALSE, recs |-> parsePatternBased(items, year)])
    /\ UNCHANGED <<fn, items, input, year, rx, dvars, avars>>

Next ==
    \/ CallParseBCAItems
    \/ CallParseMandiriPage
    \/ CallParseDirectTransactions
    \/ CallParsePatternBased

Spec == Init /\ [][Next]_vars

(***************************************************************************)
(* parseMandiriStatement as a state machine, from the point where the      *)
(* document is loaded                                                      *)
(***************************************************************************)
numPages == Len(doc)

InitStatement ==
    /\ doc \in Documents
    /\ pc = "year"
    /\ pageNum = 0
    /\ stYear = Num(DefaultYear)
    /\ pageRecs = <<>>
    /\ allRecs = <<>>
    /\ log = <<>>
    /\ NoCall
    /\ NoApp

Logged(step, n) == Append(log, [page |-> pageNum, step |-> step, n |-> n])

\* A loop that would pass over every other page
NextPageNumSkipping(n) == n + 2

\* pageNum++ of the loop over the pages
NextPageNum(n) == n + 1

\* The year is read from the text of the first page
ExtractYear ==
    /\ pc = "year"
    /\ stYear' = ResolveYear(PageText(doc[1]))
    /\ pageNum' = 1
    /\ pc' = "loop"
    /\ log' = Append(log, [page |-> 1, step |-> "year", n |-> 0])
    /\ UNCHANGED <<doc, pageRecs, allRecs, svars, avars>>

\* The last page is passed over when it is only a disclaimer
SkipDisclaimer ==
    /\ pc = "loop"
    /\ pageNum <= numPages
    /\ pageNum = numPages
    /\ IsDisclaimerPage(PageText(doc[pageNum]))
    /\ pageNum' = NextPageNum(pageNum)
    /\ log' = Logged("skip", 0)
    /\ UNCHANGED <<doc, pc, stYear, pageRecs, allRecs, svars, avars>>

\* First the standard parser
TryStandard ==
    /\ pc = "loop"
    /\ pageNum <= numPages
    /\ ~(pageNum = numPages /\ IsDisclaimerPage(PageText(doc[pageNum])))
    /\ LET standardRecs == parseMandiriPage(doc[pageNum], stYear)
       IN  /\ pageRecs' = IF Len(standardRecs) > 0 THEN standardRecs ELSE <<>>
           /\ pc' = AfterStandard(standardRecs)
           /\ log' = Logged("standard", Len(standardRecs))
    /\ UNCHANGED <<doc, pageNum, stYear, allRecs, svars, avars>>

\* Then the direct parser
TryDirect ==
    /\ pc = "direct"
    /\ LET directRecs == parseDirectTransactions(doc[pageNum], stYear)
       IN  /\ pageRecs' = IF Len(directRecs) > 0 THEN directRecs ELSE pageRecs
           /\ pc' = AfterDirect(directRecs)
           /\ log' = Logged("direct", Len(directRecs))
    /\ UNCHANGED <<doc, pageNum, stYear, allRecs, svars, avars>>

\* Then the pattern-based parser
TryPattern ==
    /\ pc = "pattern"
    /\ pageRecs' = parsePatternBased(doc[pageNum], stYear)
    /\ pc' = "push"
    /\ log' = Logged("pattern", Len(pageRecs'))
    /\ UNCHANGED <<doc, pageNum, stYear, allRecs, svars, avars>>

\* allRecs.push(...pageRecs), and on to the next page
PushPage ==
    /\ pc = "push"
    /\ allRecs' = allRecs \o pageRecs
    /\ pageNum' = NextPageNum(pageNum)
    /\ pc' = "loop"
    /\ log' = Logged("push", Len(pageRecs))
    /\ UNCHANGED <<doc, stYear, pageRecs, svars, avars>>

\* return allRecs
Return ==
    /\ pc = "loop"
    /\ pageNum > numPages
    /\ pc' = "done"
    /\ UNCHANGED <<doc, pageNum, stYear, pageRecs, allRecs, log, svars, avars>>

NextStatement ==
    \/ ExtractYear
    \/ SkipDisclaimer
    \/ TryStandard
    \/ TryDirect
    \/ TryPattern
    \/ PushPage
    \/ Return

SpecStatement == InitStatement /\ [][NextStatement]_vars

(***************************************************************************)
(* App: the selections of the user and the promise chains of convertFiles  *)
(***************************************************************************)
\* Bound: the selections of the user
MaxSelections == 3

\* The files the user may pick
Files == {"a.pdf", "b.pdf"}

\* type ParserKind
ParserKinds == {"bca_statement", "mandiri_statement", "mandiri_cc_statement"}

\* What the parser of kind k returns for the file f
ParseResult(f, k) == <<[file |-> f, parser |-> k]>>

InitApp ==
    /\ NoApp
    /\ NoCall
    /\ NoDocument

\* convertFiles() in a render whose file is f and whose parserKind is k: the
\* promise chains in flight afterwards.  The chain keeps the f and k of its
\* render.
convertFiles(f, k) ==
    IF f = "null" THEN pending
    ELSE pending \cup {[seq |-> started + 1, file |-> f, kind |-> k]}

\* The file input changes: setFile(value), and the effect on [file, parserKind]
onChange(value) ==
    /\ started < MaxSelections
    /\ value # file
    /\ file' = value
    /\ pending' = convertFiles(value, parserKind)
    /\ started' = IF value = "null" THEN started ELSE started + 1
    /\ UNCHANGED <<parserKind, trxRecords, settled, svars, dvars>>

\* The select changes: setParserKind(val), and the effect
SelectOnChange(val) ==
    /\ started < MaxSelections
    /\ val # parserKind
    /\ parserKind' = val
    /\ pending' = convertFiles(file, val)
    /\ started' = IF file = "null" THEN started ELSE started + 1
    /\ UNCHANGED <<file, trxRecords, settled, svars, dvars>>

\* A chain is fulfilled: .then((res) => { setTrxRecords(res); })
SetTrxRecords(job) ==
    /\ job \in pending
    /\ trxRecords' = ParseResult(job.file, job.kind)
    /\ pending' = pending \ {job}
    /\ settled' = settled \cup {job.seq}
    /\ UNCHANGED <<file, parserKind, started, svars, dvars>>

\* A chain is rejected (the parser throws): nothing handles it
ParseRejected(job) ==
    /\ job \in pending
    /\ pending' = pending \ {job}
    /\ UNCHANGED <<file, parserKind, trxRecords, started, settled, svars, dvars>>

NextApp ==
    \/ \E value \in Files \cup {"null"} : onChange(value)
    \/ \E val \in ParserKinds : SelectOnChange(val)
    \/ \E job \in pending : SetTrxRecords(job)
    \/ \E job \in pending : ParseRejected(job)

SpecApp == InitApp /\ [][NextApp]_vars

(***************************************************************************)
(* Properties of the parser strategies (specification Spec)                *)
(***************************************************************************)
Calls == DOMAIN outs

RecordsOf(i) == {outs[i].recs[k] : k \in DOMAIN outs[i].recs}

\* C1: parseBCAItems never throws: every call returns a list of records.
C1_NeverThrows == \A i \in Calls : ~outs[i].threw

\* A token that is plain description text
IsDescription(str) ==
    /\ ~DateMatch(str)
    /\ ~MoneyMatch(str)
    /\ str \notin {STR_DB, STR_CR, STR_CBG}
    /\ ~IsEndMarker(str)

\* The value of a money token of the sequential format
MoneyValue(str) == ParseFloat(RemoveAll(str, ","))

\* The page body after the header anchors HdrFull
BodyOf(its) == SubSeq(its, Len(HdrFull) + 1, Len(its))

\* The layout date, description, money, "DB", money after valid anchors
IsDebitLayout(its) ==
    /\ Len(its) = Len(HdrFull) + 5
    /\ SubSeq(its, 1, Len(HdrFull)) = HdrFull
    /\ DateMatch(BodyOf(its)[1].str)
    /\ IsDescription(BodyOf(its)[2].str)
    /\ MoneyMatch(BodyOf(its)[3].str)
    /\ BodyOf(its)[4].str = STR_DB
    /\ MoneyMatch(BodyOf(its)[5].str)

\* C2: after valid anchors, date, description, money, "DB", money yields
\* exactly one record: a debit whose mutasi is the first money value and whose
\* saldo is the second; for 01/01, TARIKAN ATM, 50,000.00, DB, 950,000.00 a
\* debit of 50000 with saldo 950000.
C2_DebitMarker ==
    \A i \in Calls :
        fn = "parseBCAItems" /\ IsDebitLayout(items) =>
            /\ ~outs[i].threw
            /\ Len(outs[i].recs) = 1
            /\ outs[i].recs[1].type = "debit"
            /\ outs[i].recs[1].mutasi = MoneyValue(BodyOf(items)[3].str)
            /\ outs[i].recs[1].saldo = MoneyValue(BodyOf(items)[5].str)
            /\ (BodyOf(items) = <<W_DATE, W_TARIKAN, W_M50, W_DB, W_M950>> =>
                    /\ outs[i].recs[1].mutasi = Num(50000)
                    /\ outs[i].recs[1].saldo = Num(950000))

\* C3: parseMandiriPage on a header row and the data row 1, 01 Jan 2025,
\* TRANSFER MASUK, +1.000.000,00, 5.000.000,00 returns one record: a credit of
\* 1000000 with saldo 5000000 and the description TRANSFER MASUK alone.
C3_RowExample ==
    \A i \in Calls :
        fn = "parseMandiriPage" /\ items = <<H_NO, H_TANGGAL>> \o DataRow =>
            /\ Len(outs[i].recs) = 1
            /\ outs[i].recs[1].type = "credit"
            /\ outs[i].recs[1].mutasi = Num(1000000)
            /\ outs[i].recs[1].saldo = Num(5000000)
            /\ outs[i].recs[1].ket = C_DESC.str

\* C4: a returned record whose description equals "saldo awal", letter case
\* aside, has the type saldo_awal.
C4_SaldoAwalOverride ==
    \A i \in Calls : \A r \in RecordsOf(i) :
        ToLowerCase(r.ket) = STR_saldo_awal => r.type = "saldo_awal"

\* The values of the tokens of the input that can be read as a balance
BalanceValues ==
    IF fn = "parseBCAItems"
    THEN {MoneyValue(items[j].str) : j \in {j \in DOMAIN items : MoneyMatch(items[j].str)}}
    ELSE {ParseFloat(CleanBalance(items[j].str)) :
              j \in {j \in DOMAIN items : IsSignedNumber(items[j].str)}}

\* C5: the saldo of every returned record is read from a token of the input;
\* a candidate without a balance token is not returned.
C5_BalanceFromToken ==
    \A i \in Calls : \A r \in RecordsOf(i) : r.saldo \in BalanceValues

\* Two digits, a slash, two digits
IsDayMonth(s) ==
    /\ Len(s) = 5
    /\ IsDigit(s[1]) /\ IsDigit(s[2])
    /\ s[3] = "/"
    /\ IsDigit(s[4]) /\ IsDigit(s[5])

\* C6: the tgl of every returned record has the form DD/MM.
C6_DayMonth == \A i \in Calls : \A r \in RecordsOf(i) : IsDayMonth(r.tgl)

\* C7: the tahun of every returned record is an integer, never NaN.
C7_YearIsInteger == \A i \in Calls : \A r \in RecordsOf(i) : IsInteger(r.tahun)

FirstEndMarker(its) ==
    LET ends == {j \in DOMAIN its : IsEndMarker(its[j].str)}
    IN  IF ends = {} THEN Len(its) + 1 ELSE CHOOSE j \in ends : \A k \in ends : j <= k

\* The date tokens that stand before the first terminator phrase
DatesBeforeEnd(its) ==
    {j \in DOMAIN its : j < FirstEndMarker(its) /\ DateMatch(its[j].str)}

\* C12: in parseBCAItems a terminator phrase ends the scan of the page wherever
\* it is met: no record is opened from a date token after it, and its text is
\* in no description.
C12_TerminatorEndsScan ==
    \A i \in Calls :
        fn = "parseBCAItems" /\ ~outs[i].threw =>
            /\ Len(outs[i].recs) <= Cardinality(DatesBeforeEnd(items))
            /\ \A r \in RecordsOf(i) : ~IsEndMarker(r.ket)

\* The magnitudes of the numeric tokens of the input of the given sign
Magnitudes(signs) ==
    {Abs(ParseFloat(CleanBalance(items[j].str))) :
         j \in {j \in DOMAIN items :
                   /\ IsSignedNumber(items[j].str)
                   /\ \/ Head(items[j].str) \in signs
                      \/ "" \in signs /\ IsDigit(Head(items[j].str))}}

\* C13 as stated: parseDirectTransactions stores the amount with its sign, so
\* the mutasi of a record read from a token that starts with '-' is negative.
C13_DirectSigned ==
    \A i \in Calls : \A r \in RecordsOf(i) :
        fn = "parseDirectTransactions" /\ r.type = "debit" => r.mutasi.num < 0

\* C13 amended: parseDirectTransactions stores the magnitude of the amount:
\* the mutasi of every record is the value of a numeric token without its
\* sign, never negative, and for a debit it is that of a token starting with '-'.
C13_DirectMagnitude ==
    \A i \in Calls : \A r \in RecordsOf(i) :
        fn = "parseDirectTransactions" =>
            /\ ~r.mutasi.nan
            /\ r.mutasi.num >= 0
            /\ r.mutasi \in Magnitudes({"-", "+", ""})
            /\ r.type = "debit" => r.mutasi \in Magnitudes({"-"})

\* C13 witness: parseDirectTransactions has returned a debit, read from
\* -50.000,00, with the mutasi 50000.
C13_Witness ==
    /\ fn = "parseDirectTransactions"
    /\ \E i \in Calls : \E r \in RecordsOf(i) :
           r.type = "debit" /\ r.mutasi = Num(50000)

\* Whether a is b with some of its elements left out
RECURSIVE IsSubseq(_, _)
IsSubseq(a, b) ==
    IF a = <<>> THEN TRUE
    ELSE IF b = <<>> THEN FALSE
    ELSE IF Head(a) = Head(b) THEN IsSubseq(Tail(a), Tail(b))
    ELSE IsSubseq(a, Tail(b))

\* The texts of the date tokens of the sequential format, in token order
DateTexts(its) ==
    LET ds == SelectSeq(its, LAMBDA it : DateMatch(it.str))
    IN  [k \in DOMAIN ds |-> ds[k].str]

\* The y of the date token of the row format that the date of a record was
\* read from
DateTokenY(tgl) ==
    LET j == CHOOSE j \in DOMAIN items :
                 /\ IsPlainDate(items[j].str) \/ IsDateWithYear(items[j].str)
                 /\ StartsWith(items[j].str, tgl)
    IN  items[j].y

\* C14: the records of a page are in the order of discovery: those of
\* parseBCAItems in the order of their date tokens in the token list, those of
\* the strategies of the row format from top to bottom, in non-increasing y of
\* their date tokens, whatever the order of the tokens.
C14_DiscoveryOrder ==
    \A i \in Calls :
        LET recs == outs[i].recs
        IN  IF fn = "parseBCAItems"
            THEN IsSubseq([k \in DOMAIN recs |-> recs[k].tgl], DateTexts(items))
            ELSE \A a, b \in DOMAIN recs :
                     a < b => DateTokenY(recs[a].tgl) >= DateTokenY(recs[b].tgl)

\* C15: whenever parseDirectTransactions returns no record for a token list,
\* parsePatternBased returns none for it either, so the third step of the
\* fallback chain adds nothing.
C15_PatternAddsNothing ==
    \A i \in Calls :
        fn = "parsePatternBased" /\ parseDirectTransactions(items, year) = <<>> =>
            outs[i].recs = <<>>

\* C15 witness: parsePatternBased was called on a line with the ordinal, the
\* date and a single number, for which parseDirectTransactions returns nothing.
C15_Witness ==
    /\ fn = "parsePatternBased"
    /\ outs # <<>>
    /\ parseDirectTransactions(items, year) = <<>>
    /\ {C_ORD, C_DATE, C_BAL} \subseteq Range(items)

\* C16: in every record of the strategies of the row format the mutasi and
\* the saldo are read from two different tokens of the input; no token is both
\* the amount and the balance.
C16_DistinctTokens ==
    \A i \in Calls : \A r \in RecordsOf(i) :
        fn # "parseBCAItems" =>
            \E j, k \in DOMAIN items :
                /\ j # k
                /\ IsSignedNumber(items[j].str)
                /\ IsSignedNumber(items[k].str)
                /\ r.mutasi = Abs(ParseFloat(CleanBalance(items[j].str)))
                /\ r.saldo = ParseFloat(CleanBalance(items[k].str))

(***************************************************************************)
(* Properties of parseMandiriStatement (specification SpecStatement)       *)
(***************************************************************************)
\* The step logged before entry i, on the same page
Before(i, step) == i > 1 /\ log[i - 1].page = log[i].page /\ log[i - 1].step = step

\* The strategies run in the fixed order, a later one only after the earlier
\* ones returned nothing, and what is pushed is the result of the last one run
ChainOrder ==
    \A i \in DOMAIN log :
        /\ log[i].step = "standard" =>
               \/ Before(i, "year") /\ log[i].page = 1
               \/ i > 1 /\ log[i - 1].step = "push" /\ log[i - 1].page = log[i].page - 1
        /\ log[i].step = "direct" => Before(i, "standard") /\ log[i - 1].n = 0
        /\ log[i].step = "pattern" => Before(i, "direct") /\ log[i - 1].n = 0
        /\ log[i].step = "push" =>
               /\ \/ Before(i, "standard") /\ log[i - 1].n > 0
                  \/ Before(i, "direct") /\ log[i - 1].n > 0
                  \/ Before(i, "pattern")
               /\ log[i].n = log[i - 1].n

\* The result of the first strategy that returns records, or of the last one
FirstNonEmpty(its, yr) ==
    IF parseMandiriPage(its, yr) # <<>> THEN parseMandiriPage(its, yr)
    ELSE IF parseDirectTransactions(its, yr) # <<>>
    THEN parseDirectTransactions(its, yr)
    ELSE parsePatternBased(its, yr)

\* The pages that were processed (pushed), in the order of the log
Pushed == SelectSeq(log, LAMBDA e : e.step = "push")

\* C8: for each processed page the strategies are tried in the order
\* parseMandiriPage, parseDirectTransactions, parsePatternBased, a later one
\* only if every earlier one returned no record; the page contributes the
\* result of the first strategy that returned records (or of the last one), and
\* the contributions are appended in increasing page order, unmerged.
C8_FallbackChain ==
    /\ ChainOrder
    /\ \A i, j \in DOMAIN Pushed : i < j => Pushed[i].page < Pushed[j].page
    /\ pc \in {"loop", "done"} =>
           allRecs = Flatten([k \in DOMAIN Pushed |->
                                 FirstNonEmpty(doc[Pushed[k].page], stYear)])

\* C8 witness: a document is done whose first page fell back to the direct
\* parser and whose second page was read by the standard parser.
C8_Witness ==
    /\ pc = "done"
    /\ \E i \in DOMAIN log : log[i] = [page |-> 1, step |-> "direct", n |-> 1]
    /\ \E i \in DOMAIN log : log[i] = [page |-> 2, step |-> "standard", n |-> 1]
    /\ Len(allRecs) = 2

\* The last page holds a table that the row reconstruction parser reads
LastPageHasTable ==
    /\ findHeaderRow(groupIntoRows(PosItems(doc[numPages]))) # -1
    /\ parseMandiriPage(doc[numPages], stYear) # <<>>

\* C9: when the last page holds a transaction table that the row
\* reconstruction parser recognises, its records end the output, whether or
\* not the page also says "disclaimer".
C9_DisclaimerKeepsTable ==
    pc = "done" /\ LastPageHasTable =>
        LET recs == parseMandiriPage(doc[numPages], stYear)
        IN  /\ Len(allRecs) >= Len(recs)
            /\ SubSeq(allRecs, Len(allRecs) - Len(recs) + 1, Len(allRecs)) = recs

\* The pages that the loop has passed: pushed, or skipped as a disclaimer
Passed == {log[i].page : i \in {i \in DOMAIN log : log[i].step \in {"push", "skip"}}}

\* C11: the year is resolved from the first page before any page is parsed and
\* is never resolved again; the pages are parsed one at a time in increasing
\* page number, a page only after the records of the page before it were
\* appended, none left out; every record carries the resolved year.
C11_SequentialPages ==
    /\ \A i \in DOMAIN log : (log[i].step = "year") <=> (i = 1)
    /\ \A i \in DOMAIN log \ {1} :
           \/ log[i].page = log[i - 1].page
           \/ /\ log[i].page = log[i - 1].page + 1
              /\ log[i - 1].step = "push"
    /\ pc # "year" => stYear = ResolveYear(PageText(doc[1]))
    /\ \A k \in DOMAIN allRecs : allRecs[k].tahun = stYear
    /\ \A k \in DOMAIN pageRecs : pageRecs[k].tahun = stYear
    /\ pc = "done" => Passed = 1..numPages

\* C11 witness: a document of two pages is done, its year read from the
\* period on the first page, with a record from each page.
C11_Witness ==
    /\ pc = "done"
    /\ numPages = 2
    /\ stYear = Num(2024)
    /\ Len(allRecs) = 2
    /\ \E i \in DOMAIN log : log[i].page = 2 /\ log[i].step = "push" /\ log[i].n = 1

(***************************************************************************)
(* Properties of App (specification SpecApp)                               *)
(***************************************************************************)
\* C17: once every parse that convertFiles started has settled, and the one
\* of the latest selection returned records, trxRecords is the result of
\* parsing the file selected last with the parser kind selected last; a parse
\* of an earlier selection that ends later does not overwrite it.
C17_LatestSelectionShown ==
    pending = {} /\ file # "null" /\ started \in settled =>
        trxRecords = ParseResult(file, parserKind)

====
